---- MODULE Spec2Model ----
(***************************************************************************)
(* Model of the live interview session of components/InterviewSimulator:   *)
(* the session controller (startSession / stopSession and the four         *)
(* callbacks of ai.live.connect), the microphone capture path and the      *)
(* playback scheduler (nextStartTimeRef / sourcesRef).                     *)
(*                                                                         *)
(* Model of App as well: the task state store (state.tasks), the roadmap   *)
(* and discovery drivers, and the command dispatcher (handleGlobalCommand   *)
(* behind CommandTerminal and interpretCommand).                            *)
(*                                                                         *)
(* Model of the library functions of services/gemini the two components    *)
(* call: safeParseJson, searchJobsPro / searchJobs, encodeAudio,           *)
(* decodeAudio, decodeAudioData, and of the sample conversion of the       *)
(* capture callback.  A call is examined on its own: its argument is in    *)
(* arg, what it gave back is in ret.                                       *)
(*                                                                         *)
(* Execution is single-threaded and event driven.  Every action below is   *)
(* one run-to-completion piece of a handler: a handler that contains an    *)
(* await is split at the await.                                            *)
(***************************************************************************)
EXTENDS Integers, Sequences, FiniteSets

\* ---------------------------------------------------------------- bounds
MaxSessions == 2   \* startSession calls explored
MaxMsgs     == 2   \* inbound messages explored
MaxWindows  == 2   \* capture windows explored
MaxClock    == 2   \* ticks of the audio clock explored
MaxCommands == 2   \* commands submitted to the terminal
MaxRuns     == 2   \* roadmap generations started
MaxText     == 4   \* pieces of a response text
MaxJobs     == 2   \* entries of jobs_results
MaxBytes    == 4   \* bytes of a sequence given to encodeAudio
MaxSamples  == 4   \* 16-bit samples of a buffer given to decodeAudioData
MaxFrame    == 2   \* samples of a capture window
Spread      == 3   \* sample values examined on each side of a landmark

Attempts == 1..MaxSessions
NoText   == "none"
Texts    == {"a", "b"}
Durs     == {1, 2}   \* durations of decoded buffers, in ticks

\* An inbound LiveServerMessage, reduced to the three parts onmessage reads:
\* serverContent.outputTranscription (text), the inline audio of the first
\* part of modelTurn (dur = 0: no audio; otherwise the decoded duration) and
\* serverContent.interrupted.
Messages == [text : Texts \cup {NoText}, dur : Durs \cup {0}, interrupted : BOOLEAN]

VARIABLES
    status,          \* useState 'Idle' | 'Connecting' | 'Live' | 'Error'
    isActive,        \* useState boolean
    transcription,   \* useState string[]
    sessionRef,      \* sessionRef.current: 0 = null, else the attempt whose session it holds
    outCtx,          \* outputAudioContextRef.current: 0 = null, else the attempt that created it
    nextStartTime,   \* nextStartTimeRef.current
    sources,         \* sourcesRef.current: set of source ids (indices of srcs)
    srcs,            \* every AudioBufferSourceNode created so far
    pending,         \* onmessage handlers suspended at `await decodeAudioData`, FIFO
    arrivals,        \* inbound messages in the order onmessage was invoked
    pc,              \* per attempt: position of its startSession call
    conn,            \* per attempt: state of its streaming connection
    capture,         \* attempts whose scriptProcessor is connected to the microphone
    resolved,        \* attempts whose sessionPromise has resolved
    queued,          \* per attempt: sessionPromise.then callbacks not yet run
    windows,         \* capture windows so far, <<attempt, window number>>
    sent,            \* sendRealtimeInput calls so far, <<attempt, window number>>
    now,             \* wall clock driving every AudioContext
    ctxBase,         \* per attempt: wall clock at which its output AudioContext was created
    brk,             \* the schedule was broken since the last source was scheduled:
                     \* an interruption, a clamp of nextStartTime up to the clock
                     \* (the scheduled audio had run out) or a new output context
    lastCaller       \* last button the user pressed: "none" | "start" | "stop"

\* State of App (useState in App) and of what App has in flight.
VARIABLES
    tasks,               \* state.tasks: per task id its TaskState
    roadmap,             \* state.roadmap
    discoveredJobs,      \* state.discoveredJobs
    profile,             \* state.profile
    activeTab,           \* useState activeTab
    isCommandProcessing, \* useState isCommandProcessing
    error,               \* useState error (the alert banner)
    rendered,            \* what the last render of App showed: the values the
                         \* handlers created by that render have closed over
    cmds,                \* per submitted command: position of its handleSubmit /
                         \* handleGlobalCommand call and the render it closed over
    runs,                \* per started roadmap generation: position and stepIdx
    discoveryWrites,     \* writes to tasks.discovery since its last start from a
                         \* status other than running
    lastOp               \* the operation that ran last, the task-store update it
                         \* wrote and the command result it dispatched

\* A call of a library function examined on its own
VARIABLES
    arg,                 \* the arguments of the call and what its environment holds
    ret                  \* how the call ended: pending, a value returned, an exception

simVars == <<status, isActive, transcription, sessionRef, outCtx, nextStartTime,
             sources, srcs, pending, arrivals, pc, conn, capture, resolved,
             queued, windows, sent, now, ctxBase, brk, lastCaller>>

appVars == <<tasks, roadmap, discoveredJobs, profile, activeTab,
             isCommandProcessing, error, rendered, cmds, runs,
             discoveryWrites, lastOp>>

libVars == <<arg, ret>>

vars == <<simVars, appVars, libVars>>

uiVars      == <<status, isActive, transcription>>
playVars    == <<nextStartTime, sources, srcs, pending, brk>>
captureVars == <<capture, resolved, queued, windows, sent>>

\* ---------------------------------------------------------------- App state

TaskIds  == {"roadmap", "discovery"}
Commands == 1..MaxCommands
Runs     == 1..MaxRuns
Absent   == "undefined"   \* the value of a field an object does not have

\* A TaskState as the initial state of App holds it (no error field)
InitialTask(id) ==
    [id |-> id, status |-> "idle", progress |-> 0, message |-> "", error |-> Absent]

\* A CommandResult, reduced to the fields handleGlobalCommand reads, and the
\* reason of a blocked result
Cmd(a, g, t, q, i) ==
    [action |-> a, reason |-> Absent, goal |-> g, target_tab |-> t, query |-> q,
     improvement_prompt |-> i]

\* No command result
NoCmd == Cmd(Absent, Absent, Absent, Absent, Absent)

\* One entry of lastOp
Op(name, task, fields, cmd) ==
    [name |-> name, task |-> task, fields |-> fields, cmd |-> cmd]

\* What a render of App shows of the given state
Shown(pr, ts, proc, tab) ==
    [profile |-> pr, status |-> ts["roadmap"].status, processing |-> proc, tab |-> tab]

\* What handleGlobalCommand and runRoadmapGeneration of a render read of the
\* state that render has closed over: state.profile, state.tasks.roadmap.status
Closure(r) == [profile |-> r.profile, status |-> r.status]

AppInit ==
    /\ tasks = [id \in TaskIds |-> InitialTask(id)]
    /\ roadmap = "null"
    /\ discoveredJobs = <<>>
    /\ profile = "null"
    /\ activeTab = "discover"
    /\ isCommandProcessing = FALSE
    /\ error = "null"
    /\ rendered = Shown("null", [id \in TaskIds |-> InitialTask(id)], FALSE, "discover")
    /\ cmds = [k \in Commands |-> [pc |-> "none", input |-> "", seen |-> Closure(rendered)]]
    /\ runs = [r \in Runs |-> [pc |-> "none", stepIdx |-> 0]]
    /\ discoveryWrites = 0
    /\ lastOp = Op("init", Absent, {}, NoCmd)


\* ------------------------------------------------------ InterviewSimulator

Max(a, b) == IF a >= b THEN a ELSE b

\* AudioContext.currentTime of the context created by attempt c
CurrentTime(c) == now - ctxBase[c]

SimInit ==
    /\ status = "Idle"
    /\ isActive = FALSE
    /\ transcription = <<>>
    /\ sessionRef = 0
    /\ outCtx = 0
    /\ nextStartTime = 0
    /\ sources = {}
    /\ srcs = <<>>
    /\ pending = <<>>
    /\ arrivals = <<>>
    /\ pc = [i \in Attempts |-> "none"]
    /\ conn = [i \in Attempts |-> "none"]
    /\ capture = {}
    /\ resolved = {}
    /\ queued = [i \in Attempts |-> <<>>]
    /\ windows = <<>>
    /\ sent = <<>>
    /\ now = 0
    /\ ctxBase = [i \in Attempts |-> 0]
    /\ brk = TRUE
    /\ lastCaller = "none"

\* No library call is examined
NoCall == [fn |-> "none"]

\* How a call stands or ended
Pending     == [kind |-> "pending"]
Returned(v) == [kind |-> "return", value |-> v]
Thrown(e)   == [kind |-> "throw", value |-> e]

LibInit ==
    /\ arg = NoCall
    /\ ret = Pending

Init ==
    /\ SimInit
    /\ AppInit
    /\ LibInit

\* ------------------------------------------------------- session controller

\* The attempt a new startSession call runs as: the first one not yet used.
NextAttempt == CHOOSE i \in Attempts : pc[i] = "none" /\ \A j \in Attempts : j < i => pc[j] # "none"

\* Click on "Enter Chamber" (rendered while !isActive): startSession up to its
\* first await.  setStatus('Connecting'), both AudioContexts are replaced,
\* getUserMedia is requested.
StartSession ==
    /\ ~isActive
    /\ \E i \in Attempts : pc[i] = "none"
    /\ status' = "Connecting"
    /\ outCtx' = NextAttempt
    /\ ctxBase' = [ctxBase EXCEPT ![NextAttempt] = now]
    /\ pc' = [pc EXCEPT ![NextAttempt] = "getUserMedia"]
    /\ brk' = TRUE
    /\ lastCaller' = "start"
    /\ UNCHANGED <<isActive, transcription, sessionRef, nextStartTime, sources,
                   srcs, pending, arrivals, conn, captureVars, now>>
    /\ UNCHANGED <<appVars, libVars>>

\* getUserMedia resolves: startSession continues, calls ai.live.connect and
\* suspends on `await sessionPromise`.
GetUserMediaResolved(i) ==
    /\ pc[i] = "getUserMedia"
    /\ pc' = [pc EXCEPT ![i] = "connecting"]
    /\ conn' = [conn EXCEPT ![i] = "opening"]
    /\ UNCHANGED <<uiVars, sessionRef, outCtx, playVars, arrivals, captureVars,
                   now, ctxBase, lastCaller>>
    /\ UNCHANGED <<appVars, libVars>>

\* getUserMedia rejects (permission denied, no device): the await throws and
\* startSession ends with a rejected promise; nothing catches it.
GetUserMediaRejected(i) ==
    /\ pc[i] = "getUserMedia"
    /\ pc' = [pc EXCEPT ![i] = "failed"]
    /\ UNCHANGED <<uiVars, sessionRef, outCtx, playVars, arrivals, conn,
                   captureVars, now, ctxBase, lastCaller>>
    /\ UNCHANGED <<appVars, libVars>>

\* A faulty onopen: setIsActive(true) is left out.
OnOpen_NotActive(i) ==
    /\ conn[i] = "opening"
    /\ conn' = [conn EXCEPT ![i] = "open"]
    /\ status' = "Live"
    /\ capture' = capture \cup {i}
    /\ UNCHANGED <<isActive, transcription, sessionRef, outCtx, playVars, arrivals,
                   pc, resolved, queued, windows, sent, now, ctxBase, lastCaller>>
    /\ UNCHANGED <<appVars, libVars>>

\* callbacks.onopen
OnOpen(i) ==
    /\ conn[i] = "opening"
    /\ conn' = [conn EXCEPT ![i] = "open"]
    /\ status' = "Live"
    /\ isActive' = TRUE
    /\ capture' = capture \cup {i}
    /\ UNCHANGED <<transcription, sessionRef, outCtx, playVars, arrivals, pc,
                   resolved, queued, windows, sent, now, ctxBase, lastCaller>>
    /\ UNCHANGED <<appVars, libVars>>

\* A faulty flush: the queued callbacks run last-registered first.
FlushQueue_Reversed(i, q) == [k \in 1..Len(q) |-> <<i, q[Len(q) + 1 - k]>>]

\* The frames whose sessionPromise.then callbacks run when the promise of
\* attempt i resolves: promise reactions run in registration order.
FlushQueue(i, q) == [k \in 1..Len(q) |-> <<i, q[k]>>]

\* sessionPromise resolves (the connection has opened): the continuation of
\* startSession stores the session, then the queued .then callbacks send.
ConnectResolved(i) ==
    /\ pc[i] = "connecting"
    /\ i \in capture
    /\ pc' = [pc EXCEPT ![i] = "done"]
    /\ sessionRef' = i
    /\ resolved' = resolved \cup {i}
    /\ sent' = sent \o FlushQueue(i, queued[i])
    /\ queued' = [queued EXCEPT ![i] = <<>>]
    /\ UNCHANGED <<uiVars, outCtx, playVars, arrivals, conn, capture, windows,
                   now, ctxBase, lastCaller>>
    /\ UNCHANGED <<appVars, libVars>>

\* sessionPromise rejects: the connection failed before it opened.
ConnectRejected(i) ==
    /\ pc[i] = "connecting"
    /\ i \notin capture
    /\ conn[i] \in {"errored", "closed"}
    /\ pc' = [pc EXCEPT ![i] = "failed"]
    /\ UNCHANGED <<uiVars, sessionRef, outCtx, playVars, arrivals, conn,
                   captureVars, now, ctxBase, lastCaller>>
    /\ UNCHANGED <<appVars, libVars>>

\* callbacks.onerror
OnError(i) ==
    /\ conn[i] \in {"opening", "open"}
    /\ conn' = [conn EXCEPT ![i] = "errored"]
    /\ status' = "Error"
    /\ UNCHANGED <<isActive, transcription, sessionRef, outCtx, playVars,
                   arrivals, pc, captureVars, now, ctxBase, lastCaller>>
    /\ UNCHANGED <<appVars, libVars>>

\* callbacks.onclose
OnClose(i) ==
    /\ conn[i] \in {"opening", "open", "closing", "errored"}
    /\ conn' = [conn EXCEPT ![i] = "closed"]
    /\ isActive' = FALSE
    /\ status' = "Idle"
    /\ UNCHANGED <<transcription, sessionRef, outCtx, playVars, arrivals, pc,
                   captureVars, now, ctxBase, lastCaller>>
    /\ UNCHANGED <<appVars, libVars>>

\* session.close() on the connection held by sessionRef.current
CloseConn(c, ref) ==
    IF ref # 0 /\ c[ref] \in {"opening", "open"}
    THEN [c EXCEPT ![ref] = "closing"]
    ELSE c

\* Click on "Abort Mission" (rendered while isActive): stopSession
StopSession ==
    /\ isActive
    /\ conn' = CloseConn(conn, sessionRef)
    /\ isActive' = FALSE
    /\ status' = "Idle"
    /\ lastCaller' = "stop"
    /\ UNCHANGED <<transcription, sessionRef, outCtx, playVars, arrivals, pc,
                   captureVars, now, ctxBase>>
    /\ UNCHANGED <<appVars, libVars>>

\* ------------------------------------------------------------ capture path

\* scriptProcessor.onaudioprocess: one capture window becomes one frame, sent
\* through sessionPromise.then.
Capture(i) ==
    /\ i \in capture
    /\ Len(windows) < MaxWindows
    /\ windows' = Append(windows, <<i, Len(windows) + 1>>)
    /\ IF i \in resolved
       THEN /\ sent' = Append(sent, <<i, Len(windows) + 1>>)
            /\ UNCHANGED queued
       ELSE /\ queued' = [queued EXCEPT ![i] = Append(queued[i], Len(windows) + 1)]
            /\ UNCHANGED sent
    /\ UNCHANGED <<uiVars, sessionRef, outCtx, playVars, arrivals, pc, conn,
                   capture, resolved, now, ctxBase, lastCaller>>
    /\ UNCHANGED <<appVars, libVars>>

\* ------------------------------------------------------ playback scheduler

\* A faulty append: the new entry is put in front of the transcript.
AppendTranscript_Prepend(prev, text) == <<<<"AI", text>>>> \o prev

\* setTranscription(prev => [...prev, `AI: ${text}`])
AppendTranscript(prev, text) == Append(prev, <<"AI", text>>)

\* nextStartTimeRef.current = Math.max(nextStartTimeRef.current, currentTime)
ClampStart(nst, t) == Max(nst, t)

\* A faulty advance: the duration of the scheduled buffer is not added.
AdvanceStart_Stuck(nst, d) == nst

\* nextStartTimeRef.current += buffer.duration
AdvanceStart(nst, d) == nst + d

\* A faulty interruption: the active set is not cleared.
ClearedSet_Kept(S) == S

\* sourcesRef.current.clear()
ClearedSet(S) == {}

\* The context time at which source s is heard from: start(when) with a
\* `when` in the past plays at once.
PlayStart(when, calledAt) == Max(when, calledAt)

\* What source s is doing at this moment, had nobody stopped it
Phase(s) ==
    IF now - ctxBase[s.ctx] < s.playStart THEN "scheduled"
    ELSE IF now - ctxBase[s.ctx] < s.playStart + s.dur THEN "playing"
    ELSE "finished"

\* sourcesRef.current.forEach(s => s.stop())
StopAll(ss, S) ==
    [k \in DOMAIN ss |->
        IF k \in S
        THEN [ss[k] EXCEPT !.state = "stopped", !.stoppedIn = Phase(ss[k])]
        ELSE ss[k]]

\* createBufferSource + source.start(nextStartTimeRef.current) for the audio
\* of message number idx.
NewSource(idx, d) ==
    [msg |-> idx, start |-> nextStartTime, dur |-> d, ctx |-> outCtx,
     playStart |-> PlayStart(nextStartTime, CurrentTime(outCtx)),
     cont |-> ~brk, state |-> "started", stoppedIn |-> "-", endFired |-> FALSE]

\* callbacks.onmessage, from its first line to its await (a message with
\* audio) or to its end (a message without audio).
OnMessage(i, m) ==
    /\ conn[i] \in {"open", "closing"}
    /\ Len(arrivals) < MaxMsgs
    /\ arrivals' = Append(arrivals, m)
    /\ transcription' = IF m.text # NoText
                        THEN AppendTranscript(transcription, m.text)
                        ELSE transcription
    /\ IF m.dur > 0
       THEN /\ nextStartTime' = ClampStart(nextStartTime, CurrentTime(outCtx))
            /\ brk' = (brk \/ nextStartTime < CurrentTime(outCtx))
            /\ pending' = Append(pending, Len(arrivals) + 1)
            /\ UNCHANGED <<sources, srcs>>
       ELSE IF m.interrupted
       THEN /\ srcs' = StopAll(srcs, sources)
            /\ sources' = ClearedSet(sources)
            /\ nextStartTime' = 0
            /\ brk' = TRUE
            /\ UNCHANGED pending
       ELSE UNCHANGED playVars
    /\ UNCHANGED <<status, isActive, sessionRef, outCtx, pc, conn, captureVars,
                   now, ctxBase, lastCaller>>
    /\ UNCHANGED <<appVars, libVars>>

\* The continuation whose turn it is: decodeAudioData is an async function
\* without an await of its own, so the continuations of the suspended
\* handlers are queued in the order the handlers suspended.
NextContinuation(q) == Head(q)

\* callbacks.onmessage after `await decodeAudioData`: schedule the source,
\* then handle the interrupted flag of the same message.
ResumeMessage ==
    /\ pending # <<>>
    /\ LET idx     == NextContinuation(pending)
           m       == arrivals[idx]
           id      == Len(srcs) + 1
           withNew == Append(srcs, NewSource(idx, m.dur))
       IN  /\ pending' = SelectSeq(pending, LAMBDA x : x # idx)
           /\ IF m.interrupted
              THEN /\ srcs' = StopAll(withNew, sources \cup {id})
                   /\ sources' = ClearedSet(sources \cup {id})
                   /\ nextStartTime' = 0
                   /\ brk' = TRUE
              ELSE /\ srcs' = withNew
                   /\ sources' = sources \cup {id}
                   /\ nextStartTime' = AdvanceStart(nextStartTime, m.dur)
                   /\ brk' = FALSE
    /\ UNCHANGED <<uiVars, sessionRef, outCtx, arrivals, pc, conn, captureVars,
                   now, ctxBase, lastCaller>>
    /\ UNCHANGED <<appVars, libVars>>

\* A faulty ended handler: the source stays in the active set.
Deleted_Kept(S, k) == S

\* sourcesRef.current.delete(source)
Deleted(S, k) == S \ {k}

\* source.onended = () => sourcesRef.current.delete(source): fires once, after
\* the buffer has played out or after stop()
SourceEnded(k) ==
    /\ k \in DOMAIN srcs
    /\ ~srcs[k].endFired
    /\ srcs[k].state = "stopped" \/ Phase(srcs[k]) = "finished"
    /\ srcs' = [srcs EXCEPT ![k].endFired = TRUE]
    /\ sources' = Deleted(sources, k)
    /\ UNCHANGED <<uiVars, sessionRef, outCtx, nextStartTime, pending, brk,
                   arrivals, pc, conn, captureVars, now, ctxBase, lastCaller>>
    /\ UNCHANGED <<appVars, libVars>>

\* Time passes on every audio clock.
Tick ==
    /\ now < MaxClock
    /\ now' = now + 1
    /\ UNCHANGED <<uiVars, sessionRef, outCtx, playVars, arrivals, pc, conn,
                   captureVars, ctxBase, lastCaller>>
    /\ UNCHANGED <<appVars, libVars>>

\* ------------------------------------------------------------ specification

\* The component as a whole.
Next ==
    \/ StartSession
    \/ \E i \in Attempts : GetUserMediaResolved(i)
    \/ \E i \in Attempts : GetUserMediaRejected(i)
    \/ \E i \in Attempts : OnOpen(i)
    \/ \E i \in Attempts : ConnectResolved(i)
    \/ \E i \in Attempts : ConnectRejected(i)
    \/ \E i \in Attempts : OnError(i)
    \/ \E i \in Attempts : OnClose(i)
    \/ StopSession
    \/ \E i \in Attempts : Capture(i)
    \/ \E i \in Attempts, m \in Messages : OnMessage(i, m)
    \/ ResumeMessage
    \/ \E k \in 1..MaxMsgs : SourceEnded(k)
    \/ Tick

Spec == Init /\ [][Next]_vars

\* The session controller and the capture path.  The inbound messages and
\* the audio clock are left out: no action of NextSession reads a variable
\* they write, and they write none of status, isActive, sessionRef, pc, conn
\* and the capture variables.
NextSession ==
    \/ StartSession
    \/ \E i \in Attempts : GetUserMediaResolved(i)
    \/ \E i \in Attempts : GetUserMediaRejected(i)
    \/ \E i \in Attempts : OnOpen(i)
    \/ \E i \in Attempts : ConnectResolved(i)
    \/ \E i \in Attempts : ConnectRejected(i)
    \/ \E i \in Attempts : OnError(i)
    \/ \E i \in Attempts : OnClose(i)
    \/ StopSession
    \/ \E i \in Attempts : Capture(i)

SpecSession == Init /\ [][NextSession]_vars

\* The first startSession call of the component
StartFirst == StartSession /\ outCtx = 0

\* The inbound messages without transcribed text
AudioMessages == {m \in Messages : m.text = NoText}

\* The playback scheduler within one session: the messages of the first
\* session, its lifecycle events and the audio clock.  The capture path is
\* left out (it reads and writes only its own variables), and so is the
\* transcribed text (it is written to transcription alone, which no action
\* reads).
NextPlayback ==
    \/ StartFirst
    \/ \E i \in Attempts : GetUserMediaResolved(i)
    \/ \E i \in Attempts : OnOpen(i)
    \/ \E i \in Attempts : ConnectResolved(i)
    \/ \E i \in Attempts : OnError(i)
    \/ \E i \in Attempts : OnClose(i)
    \/ StopSession
    \/ \E i \in Attempts, m \in AudioMessages : OnMessage(i, m)
    \/ ResumeMessage
    \/ \E k \in 1..MaxMsgs : SourceEnded(k)
    \/ Tick

SpecPlayback == Init /\ [][NextPlayback]_vars

\* The transcript within one session: every inbound message of the first
\* session and its lifecycle events, at one instant of the audio clock (the
\* clock is read by the scheduler alone).
NextTranscript ==
    \/ StartFirst
    \/ \E i \in Attempts : GetUserMediaResolved(i)
    \/ \E i \in Attempts : OnOpen(i)
    \/ \E i \in Attempts : ConnectResolved(i)
    \/ \E i \in Attempts : OnError(i)
    \/ \E i \in Attempts : OnClose(i)
    \/ StopSession
    \/ \E i \in Attempts, m \in Messages : OnMessage(i, m)
    \/ ResumeMessage
    \/ \E k \in 1..MaxMsgs : SourceEnded(k)

SpecTranscript == Init /\ [][NextTranscript]_vars

\* ----------------------------------------------------------- the task store

\* A faulty update: the fields the caller does not name are reset.
updateTask_Replace(ts, id, updates) ==
    [ts EXCEPT ![id] = [f \in DOMAIN @ |-> IF f \in DOMAIN updates THEN updates[f] ELSE InitialTask(id)[f]]]

\* updateTask(id, updates): setState(prev => ...) with the named task
\* replaced by { ...prev.tasks[id], ...updates }.  updates is a record of the
\* fields the caller names.
updateTask(ts, id, updates) ==
    [ts EXCEPT ![id] = [f \in DOMAIN @ |-> IF f \in DOMAIN updates THEN updates[f] ELSE @[f]]]

\* A faulty start: the first update leaves progress at 0.
RoadmapStart_AtZero ==
    [status |-> "running", progress |-> 0, message |-> "Initiating Neural Scan..."]

\* The update runRoadmapGeneration writes before anything else
RoadmapStart ==
    [status |-> "running", progress |-> 5, message |-> "Initiating Neural Scan..."]

\* const steps of runRoadmapGeneration
steps ==
    << [progress |-> 15, message |-> "Fetching Market Benchmarks..."],
       [progress |-> 30, message |-> "Identifying Skill Gaps..."],
       [progress |-> 50, message |-> "Synthesizing Strategic Roadmap..."],
       [progress |-> 75, message |-> "Optimizing Evolution Timeline..."],
       [progress |-> 90, message |-> "Finalizing Deployment Kit..."] >>

\* The record the success branch of runRoadmapGeneration puts in place of
\* tasks.roadmap: an object literal with four fields, so without error
RoadmapCompleted ==
    [id |-> "roadmap", status |-> "completed", progress |-> 100,
     message |-> "Strategy Ready", error |-> Absent]

\* The update of the catch branch of runRoadmapGeneration; e.message of an
\* Error of getAi or of the SDK
RoadmapFailed ==
    [status |-> "error", message |-> "Roadmap Generation Failed", error |-> "e.message"]

\* `Searching for ${query}...`
SearchingFor(query) ==
    IF query = "q" THEN "Searching for q..." ELSE "Searching for g..."

\* The update the search_jobs case writes before it awaits searchJobsPro
DiscoveryStart(query) ==
    [status |-> "running", progress |-> 10, message |-> SearchingFor(query)]

\* The update the search_jobs case writes after searchJobsPro has resolved
DiscoveryCompleted ==
    [status |-> "completed", progress |-> 100, message |-> "Discovery Complete"]

\* --------------------------------------------------------- interpretCommand

\* The values JSON.parse can give for a response that follows responseSchema:
\* a blocked result, the five tags handleGlobalCommand has a case for (with
\* and without the parameter the case reads) and 'status', a tag of the
\* schema handleGlobalCommand has no case for.
Replies ==
    { Cmd("blocked", Absent, Absent, Absent, Absent),
      Cmd("switch_tab", Absent, "roadmap", Absent, Absent),
      Cmd("switch_tab", Absent, Absent, Absent, Absent),
      Cmd("start_interview", Absent, Absent, Absent, Absent),
      Cmd("strategy", Absent, Absent, Absent, Absent),
      Cmd("search_jobs", Absent, Absent, "q", Absent),
      Cmd("search_jobs", "g", Absent, "", Absent),
      Cmd("search_jobs", Absent, Absent, Absent, Absent),
      Cmd("improve_resume", Absent, Absent, Absent, "i"),
      Cmd("improve_resume", Absent, Absent, Absent, Absent),
      Cmd("status", Absent, Absent, Absent, Absent) }

\* How the remote call of interpretCommand can end: getAi throws (no API
\* key), generateContent rejects, or it resolves with a response whose text
\* is empty, is not JSON, is JSON, or is JSON inside a ```json fence.
Outcomes ==
    [kind : {"nokey", "rejected", "empty", "garbage"}, value : {NoCmd}]
        \cup [kind : {"json", "fenced"}, value : Replies]

\* { action: 'blocked' }
Blocked == Cmd("blocked", Absent, Absent, Absent, Absent)

\* safeParseJson(text, fallback): the fallback for no text and for text
\* JSON.parse throws on, else the parsed value of the text without its fence
safeParseJson(o, fallback) ==
    IF o.kind = "empty" THEN fallback
    ELSE IF o.kind \in {"json", "fenced"} THEN o.value
    ELSE fallback

\* interpretCommand(input) for the outcome o of its remote call
interpretCommand(input, o) ==
    IF o.kind \in {"nokey", "rejected"}
    THEN Blocked
    ELSE safeParseJson(o, Blocked)

\* ---------------------------------------------------------------- handlers

\* JavaScript truthiness of an optional string
Truthy(x) == x \notin {Absent, ""}

\* input.trim()
Trim(input) == IF input = " " THEN "" ELSE input

Inputs == {"", " ", "x"}

\* The tabs of Layout that a handler of App sets as well; a click on one of
\* the other tabs (freelance, profile, history) does what a click on
\* interview does here.
Tabs == {"discover", "roadmap", "interview", "resume_lab"}

\* A command whose handlers have returned, a run whose generation has
\* settled: nothing holds on to their closures any more
DoneCmd == [pc |-> "done", input |-> "", seen |-> Closure(Shown("null", [id \in TaskIds |-> InitialTask(id)], FALSE, "discover"))]
DoneRun == [pc |-> "done", stepIdx |-> 0]

\* The slot a new command / a new roadmap generation runs as
NextCmd == CHOOSE k \in Commands : cmds[k].pc = "none" /\ \A j \in Commands : j < k => cmds[j].pc # "none"
NextRun == CHOOSE r \in Runs : runs[r].pc = "none" /\ \A j \in Runs : j < r => runs[j].pc # "none"

\* fetchCloudData: setState with the profile read from the cloud
ProfileLoaded ==
    /\ profile = "null"
    /\ profile' = "loaded"
    /\ lastOp' = Op("fetchCloudData", Absent, {}, NoCmd)
    /\ UNCHANGED <<tasks, roadmap, discoveredJobs, activeTab, isCommandProcessing,
                   error, rendered, cmds, runs, discoveryWrites>>
    /\ UNCHANGED <<simVars, libVars>>

\* App renders again after state updates made outside an event handler (in a
\* timer callback or after an await)
Render ==
    /\ rendered # Shown(profile, tasks, isCommandProcessing, activeTab)
    /\ rendered' = Shown(profile, tasks, isCommandProcessing, activeTab)
    /\ lastOp' = Op("render", Absent, {}, NoCmd)
    /\ UNCHANGED <<tasks, roadmap, discoveredJobs, profile, activeTab,
                   isCommandProcessing, error, cmds, runs, discoveryWrites>>
    /\ UNCHANGED <<simVars, libVars>>

\* A faulty tab switch: the task state lives in the component shown, so the
\* roadmap task starts over when another tab is selected.
SwitchTab_Local(t) ==
    /\ activeTab' = t
    /\ tasks' = [tasks EXCEPT !["roadmap"] = InitialTask("roadmap")]
    /\ rendered' = Shown(profile, tasks', isCommandProcessing, t)
    /\ lastOp' = Op("setActiveTab", Absent, {}, NoCmd)
    /\ UNCHANGED <<roadmap, discoveredJobs, profile, isCommandProcessing,
                   error, cmds, runs, discoveryWrites>>
    /\ UNCHANGED <<simVars, libVars>>

\* Click on a tab of Layout: setActiveTab(t), rendered before the next event
SwitchTab(t) ==
    /\ activeTab' = t
    /\ rendered' = Shown(profile, tasks, isCommandProcessing, t)
    /\ lastOp' = Op("setActiveTab", Absent, {}, NoCmd)
    /\ UNCHANGED <<tasks, roadmap, discoveredJobs, profile, isCommandProcessing,
                   error, cmds, runs, discoveryWrites>>
    /\ UNCHANGED <<simVars, libVars>>

\* The guard of runRoadmapGeneration, on the state its render closed over
RoadmapGuard(seen) == seen.profile = "null" \/ seen.status = "running"

\* runRoadmapGeneration of a render that closed over `seen`, up to its await:
\* the start update, setInterval and the call of generateCareerRoadmap
runRoadmapGeneration(seen) ==
    IF RoadmapGuard(seen)
    THEN UNCHANGED <<tasks, runs>>
    ELSE /\ \E r \in Runs : runs[r].pc = "none"
         /\ tasks' = updateTask(tasks, "roadmap", RoadmapStart)
         /\ runs' = [runs EXCEPT ![NextRun] = [pc |-> "awaiting", stepIdx |-> 0]]

\* The task-store update a call of runRoadmapGeneration writes
RoadmapWrite(seen, name, cmd) ==
    IF RoadmapGuard(seen)
    THEN Op(name, Absent, {}, cmd)
    ELSE Op(name, "roadmap", DOMAIN RoadmapStart, cmd)

\* Click on the button of RoadmapAgent (shown on the roadmap tab once the
\* profile is there, disabled while the rendered task is running): onTrigger
TriggerRoadmap ==
    /\ rendered.profile # "null"
    /\ rendered.tab = "roadmap"
    /\ rendered.status # "running"
    /\ runRoadmapGeneration(Closure(rendered))
    /\ rendered' = Shown(profile, tasks', isCommandProcessing, activeTab)
    /\ lastOp' = RoadmapWrite(Closure(rendered), "onTrigger", NoCmd)
    /\ UNCHANGED <<roadmap, discoveredJobs, profile, activeTab, isCommandProcessing,
                   error, cmds, discoveryWrites>>
    /\ UNCHANGED <<simVars, libVars>>

\* The callback of setInterval of run r
RoadmapTick(r) ==
    /\ runs[r].pc = "awaiting"
    /\ runs[r].stepIdx < Len(steps)
    /\ tasks' = updateTask(tasks, "roadmap", steps[runs[r].stepIdx + 1])
    /\ runs' = [runs EXCEPT ![r].stepIdx = @ + 1]
    /\ lastOp' = Op("interval", "roadmap", DOMAIN steps[1], NoCmd)
    /\ UNCHANGED <<roadmap, discoveredJobs, profile, activeTab, isCommandProcessing,
                   error, rendered, cmds, discoveryWrites>>
    /\ UNCHANGED <<simVars, libVars>>

\* generateCareerRoadmap of run r resolves: clearInterval and the setState
\* of the try block
RoadmapResolved(r) ==
    /\ runs[r].pc = "awaiting"
    /\ runs' = [runs EXCEPT ![r] = DoneRun]
    /\ roadmap' = "plan"
    /\ tasks' = [tasks EXCEPT !["roadmap"] = RoadmapCompleted]
    /\ lastOp' = Op("roadmapResolved", "roadmap", {"id", "status", "progress", "message"}, NoCmd)
    /\ UNCHANGED <<discoveredJobs, profile, activeTab, isCommandProcessing, error,
                   rendered, cmds, discoveryWrites>>
    /\ UNCHANGED <<simVars, libVars>>

\* generateCareerRoadmap of run r rejects: clearInterval and the updateTask
\* of the catch block
RoadmapRejected(r) ==
    /\ runs[r].pc = "awaiting"
    /\ runs' = [runs EXCEPT ![r] = DoneRun]
    /\ tasks' = updateTask(tasks, "roadmap", RoadmapFailed)
    /\ lastOp' = Op("roadmapRejected", "roadmap", DOMAIN RoadmapFailed, NoCmd)
    /\ UNCHANGED <<roadmap, discoveredJobs, profile, activeTab, isCommandProcessing,
                   error, rendered, cmds, discoveryWrites>>
    /\ UNCHANGED <<simVars, libVars>>

\* handleSubmit of CommandTerminal up to `await interpretCommand(cmdInput)`.
\* The continuation calls the onExecute of the render that was on screen at
\* the submit.
Submit(input) ==
    /\ Trim(input) # ""
    /\ ~rendered.processing
    /\ \E k \in Commands : cmds[k].pc = "none"
    /\ cmds' = [cmds EXCEPT ![NextCmd] =
                   [pc |-> "interpreting", input |-> input, seen |-> Closure(rendered)]]
    /\ lastOp' = Op("handleSubmit", Absent, {}, NoCmd)
    /\ UNCHANGED <<tasks, roadmap, discoveredJobs, profile, activeTab,
                   isCommandProcessing, error, rendered, runs, discoveryWrites>>
    /\ UNCHANGED <<simVars, libVars>>

\* const query = cmd.params?.query || cmd.goal || ""
Query(cmd) ==
    IF Truthy(cmd.query) THEN cmd.query
    ELSE IF Truthy(cmd.goal) THEN cmd.goal
    ELSE ""

\* A faulty dispatch: a tag without a case falls through to the discover tab.
TabAfter_Default(cmd, tab) ==
    IF cmd.action = "switch_tab" /\ Truthy(cmd.target_tab) THEN cmd.target_tab
    ELSE IF cmd.action = "start_interview" THEN "interview"
    ELSE IF cmd.action = "strategy" THEN "roadmap"
    ELSE "discover"

\* The tab handleGlobalCommand leaves for cmd before its first await
TabAfter(cmd, tab) ==
    IF cmd.action = "switch_tab" /\ Truthy(cmd.target_tab) THEN cmd.target_tab
    ELSE IF cmd.action = "start_interview" THEN "interview"
    ELSE IF cmd.action = "strategy" THEN "roadmap"
    ELSE tab

\* handleGlobalCommand(cmd) of a render that closed over `seen`, called for
\* command k, up to its first await or to its end
handleGlobalCommand(k, cmd, seen) ==
    IF cmd.action = "blocked" \/ seen.profile = "null"
    THEN /\ cmds' = [cmds EXCEPT ![k] = DoneCmd]
         /\ lastOp' = Op("handleGlobalCommand", Absent, {}, cmd)
         /\ UNCHANGED <<tasks, activeTab, isCommandProcessing, runs, discoveryWrites>>
    ELSE
    /\ activeTab' = TabAfter(cmd, activeTab)
    /\ IF cmd.action = "strategy"
       THEN /\ runRoadmapGeneration(seen)
            /\ lastOp' = RoadmapWrite(seen, "handleGlobalCommand", cmd)
            /\ cmds' = [cmds EXCEPT ![k] = DoneCmd]
            /\ isCommandProcessing' = FALSE
            /\ UNCHANGED discoveryWrites
       ELSE IF cmd.action = "search_jobs" /\ Query(cmd) # ""
       THEN /\ tasks' = updateTask(tasks, "discovery", DiscoveryStart(Query(cmd)))
            /\ discoveryWrites' = IF tasks["discovery"].status = "running"
                                  THEN discoveryWrites + 1
                                  ELSE 1
            /\ lastOp' = Op("handleGlobalCommand", "discovery", DOMAIN DiscoveryStart("q"), cmd)
            /\ cmds' = [cmds EXCEPT ![k].pc = "searching"]
            /\ isCommandProcessing' = TRUE
            /\ UNCHANGED runs
       ELSE /\ lastOp' = Op("handleGlobalCommand", Absent, {}, cmd)
            /\ IF cmd.action = "improve_resume" /\ Truthy(cmd.improvement_prompt)
               THEN /\ cmds' = [cmds EXCEPT ![k].pc = "improving"]
                    /\ isCommandProcessing' = TRUE
               ELSE /\ cmds' = [cmds EXCEPT ![k] = DoneCmd]
                    /\ isCommandProcessing' = FALSE
            /\ UNCHANGED <<tasks, runs, discoveryWrites>>

\* interpretCommand of command k settles with outcome o: handleSubmit goes on
\* and calls onExecute(result)
InterpretResolved(k, o) ==
    /\ cmds[k].pc = "interpreting"
    /\ handleGlobalCommand(k, interpretCommand(cmds[k].input, o), cmds[k].seen)
    /\ UNCHANGED <<roadmap, discoveredJobs, profile, error, rendered>>
    /\ UNCHANGED <<simVars, libVars>>

\* searchJobsPro of command k resolves with jobs: the rest of the
\* search_jobs case, then finally
SearchResolved(k, jobs) ==
    /\ cmds[k].pc = "searching"
    /\ cmds' = [cmds EXCEPT ![k] = DoneCmd]
    /\ discoveredJobs' = jobs
    /\ tasks' = updateTask(tasks, "discovery", DiscoveryCompleted)
    /\ discoveryWrites' = discoveryWrites + 1
    /\ activeTab' = "discover"
    /\ isCommandProcessing' = FALSE
    /\ lastOp' = Op("searchResolved", "discovery", DOMAIN DiscoveryCompleted, NoCmd)
    /\ UNCHANGED <<roadmap, profile, error, rendered, runs>>
    /\ UNCHANGED <<simVars, libVars>>

\* searchJobsPro of command k rejects (its fallback searchJobs throws: no API
\* key, or generateContent rejects): catch, then finally
SearchRejected(k) ==
    /\ cmds[k].pc = "searching"
    /\ cmds' = [cmds EXCEPT ![k] = DoneCmd]
    /\ error' = "Agent command failed"
    /\ isCommandProcessing' = FALSE
    /\ lastOp' = Op("searchRejected", Absent, {}, NoCmd)
    /\ UNCHANGED <<tasks, roadmap, discoveredJobs, profile, activeTab, rendered,
                   runs, discoveryWrites>>
    /\ UNCHANGED <<simVars, libVars>>

\* addRelevantExperienceViaAI of command k resolves: handleUpdateTrack puts
\* the improved track into the profile, setActiveTab('resume_lab'), finally
ImproveResolved(k) ==
    /\ cmds[k].pc = "improving"
    /\ cmds' = [cmds EXCEPT ![k] = DoneCmd]
    /\ profile' = "improved"
    /\ activeTab' = "resume_lab"
    /\ isCommandProcessing' = FALSE
    /\ lastOp' = Op("improveResolved", Absent, {}, NoCmd)
    /\ UNCHANGED <<tasks, roadmap, discoveredJobs, error, rendered, runs,
                   discoveryWrites>>
    /\ UNCHANGED <<simVars, libVars>>

\* addRelevantExperienceViaAI of command k rejects: catch, then finally
ImproveRejected(k) ==
    /\ cmds[k].pc = "improving"
    /\ cmds' = [cmds EXCEPT ![k] = DoneCmd]
    /\ error' = "Agent command failed"
    /\ isCommandProcessing' = FALSE
    /\ lastOp' = Op("improveRejected", Absent, {}, NoCmd)
    /\ UNCHANGED <<tasks, roadmap, discoveredJobs, profile, activeTab, rendered,
                   runs, discoveryWrites>>
    /\ UNCHANGED <<simVars, libVars>>

\* What searchJobsPro can resolve with: no job (the fallback of
\* safeParseJson) or jobs
JobLists == {<<>>, <<"job">>}

\* App: the task store, its two drivers and the command dispatcher.  No
\* action of the interview simulator reads or writes a variable of App.
NextApp ==
    \/ ProfileLoaded
    \/ Render
    \/ \E t \in Tabs : SwitchTab(t)
    \/ TriggerRoadmap
    \/ \E r \in Runs : RoadmapTick(r)
    \/ \E r \in Runs : RoadmapResolved(r)
    \/ \E r \in Runs : RoadmapRejected(r)
    \/ \E input \in Inputs : Submit(input)
    \/ \E k \in Commands, o \in Outcomes : InterpretResolved(k, o)
    \/ \E k \in Commands, jobs \in JobLists : SearchResolved(k, jobs)
    \/ \E k \in Commands : SearchRejected(k)
    \/ \E k \in Commands : ImproveResolved(k)
    \/ \E k \in Commands : ImproveRejected(k)

SpecApp == Init /\ [][NextApp]_vars

\* App driven from the terminal and the tab bar: every action of App but the
\* click on the button of RoadmapAgent.  The 'strategy' command runs the same
\* runRoadmapGeneration as the button.
NextTerminal ==
    \/ ProfileLoaded
    \/ Render
    \/ \E t \in Tabs : SwitchTab(t)
    \/ \E r \in Runs : RoadmapTick(r)
    \/ \E r \in Runs : RoadmapResolved(r)
    \/ \E r \in Runs : RoadmapRejected(r)
    \/ \E input \in Inputs : Submit(input)
    \/ \E k \in Commands, o \in Outcomes : InterpretResolved(k, o)
    \/ \E k \in Commands, jobs \in JobLists : SearchResolved(k, jobs)
    \/ \E k \in Commands : SearchRejected(k)
    \/ \E k \in Commands : ImproveResolved(k)
    \/ \E k \in Commands : ImproveRejected(k)

SpecTerminal == Init /\ [][NextTerminal]_vars

\* ------------------------------------------------------------ safeParseJson

\* Every sequence over S of length 0..n
SeqsUpTo(S, n) == UNION {[1..k -> S] : k \in 0..n}

\* A response text as a sequence of lexical pieces: the two fences the
\* regular expression of safeParseJson looks for, the punctuation of JSON,
\* a double quote ("q"), a letter and a blank
Fences == {"fence json", "fence"}   \* ```json and ```
Pieces == Fences \cup {"{", "}", "[", "]", "q", "x", " "}

\* response.text: undefined, or a text of at most MaxText pieces
ResponseTexts ==
    [defined : {FALSE}, toks : {<<>>}]
        \cup [defined : {TRUE}, toks : SeqsUpTo(Pieces, MaxText)]

\* The values of JSON the pieces can spell: the empty object, a string, an
\* array of at most one value
JsonObject     == [t |-> "object", items |-> <<>>, chars |-> <<>>]
JsonString(cs) == [t |-> "string", items |-> <<>>, chars |-> cs]
JsonArray(vs)  == [t |-> "array", items |-> vs, chars |-> <<>>]

\* The value a caller passes as fallback when it is neither {} nor []
\* (interpretCommand passes { action: 'blocked' }, the resume functions the
\* current resume)
CallerDefault == [t |-> "default", items |-> <<>>, chars |-> <<>>]

\* The fallbacks the callers of safeParseJson pass
Fallbacks == {JsonObject, JsonArray(<<>>), CallerDefault}

SyntaxError == [t |-> "SyntaxError", items |-> <<>>, chars |-> <<>>]

RECURSIVE Trimmed(_)
\* String.prototype.trim, and the white space JSON.parse skips around a value
Trimmed(t) ==
    IF t = <<>> THEN t
    ELSE IF Head(t) = " " THEN Trimmed(Tail(t))
    ELSE IF t[Len(t)] = " " THEN Trimmed(SubSeq(t, 1, Len(t) - 1))
    ELSE t

RECURSIVE JSONparse(_)
\* JSON.parse(t): the value t spells, or a SyntaxError thrown
JSONparse(t) ==
    LET u     == Trimmed(t)
        n     == Len(u)
        inner == SubSeq(u, 2, n - 1)
    IN  IF n < 2 THEN Thrown(SyntaxError)
        ELSE IF u[1] = "{" /\ u[n] = "}"
        THEN IF Trimmed(inner) = <<>> THEN Returned(JsonObject) ELSE Thrown(SyntaxError)
        ELSE IF u[1] = "[" /\ u[n] = "]"
        THEN IF Trimmed(inner) = <<>> THEN Returned(JsonArray(<<>>))
             ELSE IF JSONparse(inner).kind = "throw" THEN Thrown(SyntaxError)
             ELSE Returned(JsonArray(<<JSONparse(inner).value>>))
        ELSE IF u[1] = "q" /\ u[n] = "q"
        THEN IF \E k \in 1..Len(inner) : inner[k] = "q" THEN Thrown(SyntaxError)
             ELSE Returned(JsonString(inner))
        ELSE Thrown(SyntaxError)

\* text.replace(/```json|```/g, "").trim()
cleanText(t) == Trimmed(SelectSeq(t, LAMBDA p : p \notin Fences))

\* safeParseJson(text, fallback), on the text itself: the fallback for no
\* text, else JSON.parse of the text without fences, and the fallback when
\* JSON.parse throws
safeParse(text, fallback) ==
    IF ~text.defined \/ text.toks = <<>> THEN Returned(fallback)
    ELSE IF JSONparse(cleanText(text.toks)).kind = "throw" THEN Returned(fallback)
    ELSE JSONparse(cleanText(text.toks))

\* A caller holds a response text and a fallback
InitParse ==
    /\ SimInit
    /\ AppInit
    /\ arg \in [fn : {"safeParseJson"}, text : ResponseTexts, fallback : Fallbacks]
    /\ ret = Pending

\* The call safeParseJson(response.text, fallback)
CallSafeParseJson ==
    /\ arg.fn = "safeParseJson"
    /\ ret = Pending
    /\ ret' = safeParse(arg.text, arg.fallback)
    /\ UNCHANGED <<arg, simVars, appVars>>

SpecParse == InitParse /\ [][CallSafeParseJson]_vars

\* ------------------------------------------------- searchJobsPro, searchJobs

\* A call suspended at an await
Suspended(at) == [kind |-> "pending", at |-> at]

\* Nothing has answered yet
NotYet == [kind |-> "not yet"]

Queries == {"q", "g"}

\* An entry of data.jobs_results, reduced to title and to two of the fields
\* the mapping of searchJobsPro has a default for
RawJobs == [title : {"t"}, via : {Absent, "LinkedIn"}, salary : {Absent, "100k"}]

\* How fetch(url) and response.json() can end: fetch rejects, the body is not
\* JSON, the body is null, or it is an object without jobs_results or with
\* a jobs_results list
FetchOutcomes ==
    [kind : {"network", "not json", "null"}, present : {FALSE}, jobs_results : {<<>>}]
        \cup [kind : {"data"}, present : {FALSE}, jobs_results : {<<>>}]
        \cup [kind : {"data"}, present : {TRUE}, jobs_results : SeqsUpTo(RawJobs, MaxJobs)]

\* How ai.models.generateContent can end: it rejects, or it resolves with a
\* response text
GenerateOutcomes ==
    [kind : {"rejected"}, text : {[defined |-> FALSE, toks |-> <<>>]}]
        \cup [kind : {"resolved"}, text : ResponseTexts]

\* The object the mapping of searchJobsPro makes of one entry
DiscoveredJob(job) ==
    [title  |-> job.title,
     source |-> IF Truthy(job.via) THEN job.via ELSE "Google Jobs",
     salary |-> IF Truthy(job.salary) THEN job.salary ELSE "Not specified"]

\* data.jobs_results.map(...)
MapJobs(results) == JsonArray([k \in 1..Len(results) |-> DiscoveredJob(results[k])])

\* searchJobs(preferences) up to its await: getAi throws without an API key,
\* and nothing in searchJobs or in searchJobsPro catches it
searchJobs(a) ==
    IF ~a.apiKey
    THEN Thrown("Gemini API Key is missing")
    ELSE Suspended("generateContent")

\* The program calls searchJobsPro(query) in an environment with or without
\* SERP_API_KEY and API_KEY
InitSearch ==
    /\ SimInit
    /\ AppInit
    /\ arg \in [fn : {"searchJobsPro"}, query : Queries, serpKey : BOOLEAN,
                apiKey : BOOLEAN, fetch : {NotYet}, generate : {NotYet}]
    /\ ret = Pending

\* searchJobsPro(query) up to its first await
CallSearchJobsPro ==
    /\ arg.fn = "searchJobsPro"
    /\ ret = Pending
    /\ ret' = IF ~arg.serpKey THEN searchJobs(arg) ELSE Suspended("fetch")
    /\ UNCHANGED <<arg, simVars, appVars>>

\* fetch and response.json() have settled, with some outcome o: the rest of
\* the try block, or the catch block
FetchSettled ==
    /\ arg.fn = "searchJobsPro"
    /\ ret = Suspended("fetch")
    /\ \E o \in FetchOutcomes :
          /\ arg' = [arg EXCEPT !.fetch = o]
          /\ ret' = IF o.kind = "data" /\ o.present /\ Len(o.jobs_results) > 0
                    THEN Returned(MapJobs(o.jobs_results))
                    ELSE searchJobs(arg)
    /\ UNCHANGED <<simVars, appVars>>

\* generateContent of searchJobs has settled, with some outcome o
GenerateSettled ==
    /\ arg.fn = "searchJobsPro"
    /\ ret = Suspended("generateContent")
    /\ \E o \in GenerateOutcomes :
          /\ arg' = [arg EXCEPT !.generate = o]
          /\ ret' = IF o.kind = "rejected"
                    THEN Thrown("generateContent rejected")
                    ELSE safeParse(o.text, JsonArray(<<>>))
    /\ UNCHANGED <<simVars, appVars>>

NextSearch ==
    \/ CallSearchJobsPro
    \/ FetchSettled
    \/ GenerateSettled

SpecSearch == InitSearch /\ [][NextSearch]_vars

\* ------------------------------------------------- encodeAudio, decodeAudio

\* Byte values every position of a byte sequence is drawn from
ByteSample == {0, 1, 127, 128, 255}
AllBytes   == 0..255

\* The byte sequences examined: every sequence over ByteSample of at most
\* MaxBytes bytes, and every byte value at each of the three positions of a
\* base64 group
ByteStrings ==
    SeqsUpTo(ByteSample, MaxBytes)
        \cup {<<b>> : b \in AllBytes}
        \cup {<<a, b>> : a \in ByteSample, b \in AllBytes}
        \cup {<<a, c, b>> : a \in ByteSample, c \in ByteSample, b \in AllBytes}

\* A base64 text is a sequence of digits: 0..63 stand for A-Z a-z 0-9 + /,
\* Pad for '='
Pad == 64

\* let binary = ''; binary += String.fromCharCode(bytes[i]): a binary string
\* is the sequence of its char codes
BinaryString(bytes) == [i \in 1..Len(bytes) |-> bytes[i]]

RECURSIVE btoa(_)
\* window.btoa on a string of char codes below 256: three chars make four
\* digits, the last one or two chars are padded
btoa(s) ==
    IF Len(s) = 0 THEN <<>>
    ELSE IF Len(s) = 1
    THEN <<s[1] \div 4, (s[1] % 4) * 16, Pad, Pad>>
    ELSE IF Len(s) = 2
    THEN <<s[1] \div 4, (s[1] % 4) * 16 + s[2] \div 16, (s[2] % 16) * 4, Pad>>
    ELSE <<s[1] \div 4, (s[1] % 4) * 16 + s[2] \div 16,
           (s[2] % 16) * 4 + s[3] \div 64, s[3] % 64>> \o btoa(SubSeq(s, 4, Len(s)))

\* A faulty first step: the padding is left in the text.
Unpadded_Kept(t) == t

\* The first step of window.atob: a text whose length is a multiple of 4
\* loses one or two '=' at its end
Unpadded(t) ==
    IF Len(t) % 4 # 0 \/ Len(t) = 0 THEN t
    ELSE IF t[Len(t)] # Pad THEN t
    ELSE IF t[Len(t) - 1] # Pad THEN SubSeq(t, 1, Len(t) - 1)
    ELSE SubSeq(t, 1, Len(t) - 2)

RECURSIVE DecodeDigits(_)
\* The rest of window.atob: four digits make three chars; two digits left
\* over make one char, three make two, the bits beyond are discarded
DecodeDigits(d) ==
    IF Len(d) < 2 THEN <<>>
    ELSE IF Len(d) = 2 THEN <<d[1] * 4 + d[2] \div 16>>
    ELSE IF Len(d) = 3 THEN <<d[1] * 4 + d[2] \div 16, (d[2] % 16) * 16 + d[3] \div 4>>
    ELSE <<d[1] * 4 + d[2] \div 16, (d[2] % 16) * 16 + d[3] \div 4,
           (d[3] % 4) * 64 + d[4]>> \o DecodeDigits(SubSeq(d, 5, Len(d)))

\* window.atob: the binary string of a base64 text, or an
\* InvalidCharacterError for a text that is not base64
atob(t) ==
    LET d == Unpadded(t)
    IN  IF Len(d) % 4 = 1 \/ \E k \in 1..Len(d) : d[k] = Pad
        THEN Thrown("InvalidCharacterError")
        ELSE Returned(DecodeDigits(d))

\* encodeAudio(bytes)
encodeAudio(bytes) == btoa(BinaryString(bytes))

\* decodeAudio(base64): bytes[i] = binaryString.charCodeAt(i), stored in a
\* Uint8Array
decodeAudio(base64) ==
    IF atob(base64).kind = "throw" THEN atob(base64)
    ELSE Returned([i \in 1..Len(atob(base64).value) |-> atob(base64).value[i] % 256])

\* ----------------------------------------- PCM16: capture and decodeAudioData

\* A number of JavaScript as a fraction with a power of two as denominator
Frac(n, d) == [num |-> n, den |-> d]

\* x * k, with the fraction reduced by k where it can be
Times(x, k) ==
    IF x.den % k = 0 THEN Frac(x.num, x.den \div k) ELSE Frac(x.num * k, x.den)

\* The integer part of x, towards zero
Trunc(x) ==
    IF x.num >= 0 THEN x.num \div x.den ELSE -((-x.num) \div x.den)

\* A faulty store: a value out of range is held at the nearest bound.
ToInt16_Clamped(k) ==
    IF k > 32767 THEN 32767 ELSE IF k < -32768 THEN -32768 ELSE k

\* The value an Int16Array element takes for the integer k: k modulo 2^16,
\* read as two's complement
ToInt16(k) ==
    IF k % 65536 >= 32768 THEN (k % 65536) - 65536 ELSE k % 65536

\* int16[i] = inputData[i] * 32768
StoreSample(s) == ToInt16(Trunc(Times(s, 32768)))

\* new Uint8Array(int16.buffer): two bytes per element, low byte first
Int16Bytes(int16) ==
    [k \in 1..(2 * Len(int16)) |->
        IF k % 2 = 1 THEN (int16[(k + 1) \div 2] % 65536) % 256
        ELSE (int16[k \div 2] % 65536) \div 256]

\* new Int16Array(data.buffer) for a buffer of an even number of bytes; the
\* Uint8Array decodeAudio makes covers the whole of its buffer
Int16View(data) ==
    [k \in 1..(Len(data) \div 2) |-> ToInt16(data[2 * k - 1] + 256 * data[2 * k])]

\* Samples of inputData in units of 1/65536: the values within Spread of
\* -2, -1.5, -1, 0, 1, 1.5 and 2
Landmarks  == {-131072, -98304, -65536, 0, 65536, 98304, 131072}
SampleNums == UNION {(c - Spread)..(c + Spread) : c \in Landmarks}
Samples    == {Frac(n, 65536) : n \in SampleNums}

\* 16-bit samples a PCM16 buffer is made of
Int16Sample == {-32768, -1, 0, 1, 32767}

\* channelData[i] = dataInt16[i * numChannels + channel] / 32768.0 (indices
\* from 0)
ChannelSample(dataInt16, numChannels, channel, i) ==
    Frac(dataInt16[i * numChannels + channel + 1], 32768)

\* decodeAudioData(data, ctx, sampleRate, numChannels): new Int16Array throws
\* a RangeError for an odd number of bytes, createBuffer takes the integer
\* part of frameCount and throws a NotSupportedError for no frame, and the
\* loop fills the frames the buffer has (a store beyond them does nothing)
decodeAudioData(data, numChannels) ==
    IF Len(data) % 2 # 0 THEN Thrown("RangeError")
    ELSE IF Len(Int16View(data)) \div numChannels = 0 THEN Thrown("NotSupportedError")
    ELSE Returned(
            [numberOfChannels |-> numChannels,
             length |-> Len(Int16View(data)) \div numChannels,
             channelData |->
                [channel \in 0..(numChannels - 1) |->
                    [i \in 0..((Len(Int16View(data)) \div numChannels) - 1) |->
                        ChannelSample(Int16View(data), numChannels, channel, i)]]])

\* The calls examined: encodeAudio on a byte sequence (and decodeAudio on
\* what it gives), decodeAudioData on the bytes of 16-bit samples with or
\* without a stray byte after them, the capture callback on a window of
\* samples
CodecCalls ==
    [fn : {"encodeAudio"}, bytes : ByteStrings]
        \cup [fn : {"decodeAudioData"},
              int16 : SeqsUpTo(Int16Sample, MaxSamples),
              stray : {<<>>, <<1>>},
              numChannels : {1, 2}]
        \cup [fn : {"onaudioprocess"}, inputData : SeqsUpTo(Samples, MaxFrame) \ {<<>>}]

InitCodec ==
    /\ SimInit
    /\ AppInit
    /\ arg \in CodecCalls
    /\ ret = Pending

\* encodeAudio(bytes)
CallEncodeAudio ==
    /\ arg.fn = "encodeAudio"
    /\ ret = Pending
    /\ ret' = [kind |-> "encoded", value |-> encodeAudio(arg.bytes)]
    /\ UNCHANGED <<arg, simVars, appVars>>

\* decodeAudio on the text encodeAudio gave
CallDecodeAudio ==
    /\ arg.fn = "encodeAudio"
    /\ ret.kind = "encoded"
    /\ ret' = decodeAudio(ret.value)
    /\ UNCHANGED <<arg, simVars, appVars>>

\* The data of a decodeAudioData call
Data(a) == Int16Bytes(a.int16) \o a.stray

\* decodeAudioData(data, ctx, 24000, numChannels)
CallDecodeAudioData ==
    /\ arg.fn = "decodeAudioData"
    /\ ret = Pending
    /\ ret' = decodeAudioData(Data(arg), arg.numChannels)
    /\ UNCHANGED <<arg, simVars, appVars>>

\* scriptProcessor.onaudioprocess: the window as 16-bit samples, and the
\* text put in pcmBlob.data
OnAudioProcess ==
    /\ arg.fn = "onaudioprocess"
    /\ ret = Pending
    /\ LET int16 == [i \in 1..Len(arg.inputData) |-> StoreSample(arg.inputData[i])]
       IN  ret' = Returned([int16 |-> int16, data |-> encodeAudio(Int16Bytes(int16))])
    /\ UNCHANGED <<arg, simVars, appVars>>

NextCodec ==
    \/ CallEncodeAudio
    \/ CallDecodeAudio
    \/ CallDecodeAudioData
    \/ OnAudioProcess

SpecCodec == InitCodec /\ [][NextCodec]_vars

\* ------------------------------------------------------------------ claims

Range(q) == {q[k] : k \in DOMAIN q}

IsPrefix(a, b) == Len(a) <= Len(b) /\ \A k \in 1..Len(a) : a[k] = b[k]

\* Source s is scheduled or playing and has not played out
Audible(s) == s.state = "started" /\ Phase(s) # "finished"

\* C1 - Barge-in: once an audio message and the interrupted message that
\* follows it have both been handled to the end, the active set is empty,
\* nextStartTime is 0 and no source made from that audio is scheduled or
\* playing.
BargeInDiscardsChunk ==
    LET n == Len(arrivals) IN
    (/\ n >= 2
     /\ pending = <<>>
     /\ arrivals[n - 1].dur > 0 /\ ~arrivals[n - 1].interrupted
     /\ arrivals[n].dur = 0 /\ arrivals[n].interrupted)
    => /\ sources = {}
       /\ nextStartTime = 0
       /\ \A k \in DOMAIN srcs : srcs[k].msg = n - 1 => ~Audible(srcs[k])

RECURSIVE SumDur(_, _)
\* d(i) + ... + d(j) of the sources in scheduling order
SumDur(i, j) == IF i > j THEN 0 ELSE srcs[i].dur + SumDur(i + 1, j)

\* Sources i+1..j were each scheduled back-to-back after their predecessor:
\* no interruption, no clamp up to the clock and no new output context in
\* between.
BackToBack(i, j) == \A k \in (i + 1)..j : srcs[k].cont

\* C2 - Gapless law: within a run of buffers handled back-to-back the start
\* time of a buffer is the start time of the first one plus the durations
\* of the buffers before it (each scheduled interval begins where the
\* previous one ends), and the sources are scheduled in arrival order.
GaplessLaw ==
    \A i, j \in DOMAIN srcs :
        i < j =>
            /\ srcs[i].msg < srcs[j].msg
            /\ BackToBack(i, j) => srcs[j].start = srcs[i].start + SumDur(i, j - 1)

\* A run of two buffers of different durations scheduled back-to-back from a
\* non-zero clock offset
GaplessWitness ==
    /\ Len(srcs) >= 2
    /\ srcs[2].cont
    /\ srcs[1].start > 0
    /\ srcs[1].dur # srcs[2].dur

\* A step that finishes the handler of a message carrying the interrupted flag
InterruptHandled ==
    \/ /\ Len(arrivals') = Len(arrivals) + 1
       /\ arrivals'[Len(arrivals')].interrupted
       /\ arrivals'[Len(arrivals')].dur = 0
    \/ \E idx \in Range(pending) :
          idx \notin Range(pending') /\ arrivals[idx].interrupted

ReleaseOnEveryExit ==
    [][\A i \in Attempts :
          (i \in capture /\ (StopSession \/ OnClose(i) \/ OnError(i)))
          => (i \notin capture' /\ conn'[i] \notin {"opening", "open"})]_vars

\* C5 - stopSession: once stop was the caller's last action the status is
\* Idle and stays Idle, and no connection is left opening or open.
StopStaysIdle ==
    lastCaller = "stop" =>
        /\ status = "Idle"
        /\ \A i \in Attempts : conn[i] \notin {"opening", "open"}

\* The transitions of the session state machine
AllowedTransition(a, b) ==
    \/ a = "Idle" /\ b = "Connecting"
    \/ a = "Connecting" /\ b = "Live"
    \/ b = "Error"
    \/ b = "Idle"

\* C6 - The status moves only along Idle -> Connecting, Connecting -> Live,
\* any -> Error and any -> Idle.
OnlyAllowedTransitions ==
    [][status' # status => AllowedTransition(status, status')]_vars

\* C7 - start() with the microphone unavailable: the status becomes Error and
\* no connection is opened.
MicFailureIsError ==
    [][\A i \in Attempts :
          GetUserMediaRejected(i) => (status' = "Error" /\ conn'[i] = "none")]_vars

\* C8 - After a remote error event the status stays Error until the caller
\* invokes start or stop.
ErrorStaysUntilCaller ==
    [][(status = "Error" /\ status' # "Error") => (StartSession \/ StopSession)]_vars

\* The frames of attempt i in a sequence of <<attempt, window>> pairs
FramesOf(seq, i) == SelectSeq(seq, LAMBDA f : f[1] = i)

\* C9 - Capture-to-wire ordering: the frames handed to a connection are the
\* capture windows of its session, one frame per window, in capture order;
\* a window is either sent or waits, in order, for the session to resolve;
\* once the session has resolved every window has been sent; no frame is
\* sent before on-open.
CaptureOrderOnWire ==
    \A i \in Attempts :
        /\ IsPrefix(FramesOf(sent, i), FramesOf(windows, i))
        /\ FramesOf(windows, i) =
               FramesOf(sent, i) \o [k \in 1..Len(queued[i]) |-> <<i, queued[i][k]>>]
        /\ i \in resolved => FramesOf(sent, i) = FramesOf(windows, i)
        /\ FramesOf(sent, i) # <<>> => i \in capture

\* Two windows captured before the session resolved have been sent while the
\* session is Live
CaptureWitness ==
    \E i \in Attempts :
        /\ status = "Live"
        /\ i \in resolved
        /\ Len(FramesOf(sent, i)) >= 2

RECURSIVE TextsOf(_)
\* The transcript entries of a sequence of messages, in order
TextsOf(ms) ==
    IF ms = <<>> THEN <<>>
    ELSE LET m == ms[1]
         IN  (IF m.text # NoText THEN <<<<"AI", m.text>>>> ELSE <<>>) \o TextsOf(Tail(ms))

\* C10 - The transcript is append-only and in arrival order: every step
\* leaves the existing entries in place, adds at most one entry at the end,
\* and the transcript is the texts of the messages arrived so far, in
\* arrival order.
TranscriptAppendOnly ==
    [][/\ IsPrefix(transcription, transcription')
       /\ Len(transcription') <= Len(transcription) + 1
       /\ transcription' = TextsOf(arrivals')]_vars

\* Two different entries are still in the transcript after the session was
\* stopped and its connection closed
TranscriptWitness ==
    /\ Len(transcription) = 2
    /\ transcription[1] # transcription[2]
    /\ lastCaller = "stop"
    /\ \E i \in Attempts : conn[i] = "closed"

\* ------------------------------------------------------- claims on the App

\* This step invokes the roadmap driver: the button of RoadmapAgent, or a
\* 'strategy' command
RoadmapInvoked ==
    \/ lastOp'.name = "onTrigger"
    \/ lastOp'.name = "handleGlobalCommand" /\ lastOp'.cmd.action = "strategy"

\* This step invokes the discovery driver: a 'search_jobs' command with a query
DiscoveryInvoked ==
    /\ lastOp'.name = "handleGlobalCommand"
    /\ lastOp'.cmd.action = "search_jobs"
    /\ Query(lastOp'.cmd) # ""

\* The external calls in flight: the roadmap generations and the searches
\* that have not settled
Generating == {r \in Runs : runs[r].pc = "awaiting"}
Searching  == {k \in Commands : cmds[k].pc = "searching"}

\* C11: a driver invoked while its task has status running is a no-op: it
\* starts no second external call and no second progress timer (every run
\* has its own timer) and changes no field of the task.
RunningGuardNoOp ==
    [][ /\ (RoadmapInvoked /\ tasks["roadmap"].status = "running")
              => (tasks'["roadmap"] = tasks["roadmap"] /\ Generating' = Generating)
        /\ (DiscoveryInvoked /\ tasks["discovery"].status = "running")
              => (tasks'["discovery"] = tasks["discovery"] /\ Searching' \subseteq Searching)
      ]_vars

\* This step leaves task id failed: status error, an error field that is
\* there and not empty, progress not lower than before
FailedTask(id) ==
    /\ tasks'[id].status = "error"
    /\ Truthy(tasks'[id].error)
    /\ tasks'[id].progress >= tasks[id].progress

\* C12: when the external call of a driver throws or rejects, the task of
\* that driver (roadmap, discovery) ends with status error and a non-empty
\* error field, and its progress is not lower than the last one recorded.
DriverFailureIsError ==
    [][ /\ lastOp'.name = "roadmapRejected" => FailedTask("roadmap")
        /\ lastOp'.name = "searchRejected" => FailedTask("discovery")
      ]_vars

\* C13: once the external call of the roadmap driver has settled no simulated
\* update is applied: a tick of the progress timer finds the task running
\* (never completed or error), a completed task has progress 100 and message
\* 'Strategy Ready', and progress never exceeds 100.
SimulatedProgressLosesRace ==
    [][ /\ lastOp'.name = "interval" => tasks["roadmap"].status = "running"
        /\ tasks'["roadmap"].status = "completed"
              => /\ tasks'["roadmap"].progress = 100
                 /\ tasks'["roadmap"].message = "Strategy Ready"
        /\ tasks'["roadmap"].progress <= 100
      ]_vars

\* This step starts a driver: a roadmap generation or a search begins to wait
\* for its external call
RoadmapStarted   == Generating' \ Generating # {}
DiscoveryStarted == Searching' \ Searching # {}

\* C14 as stated: the update a driver writes before it awaits its external
\* call sets status running and progress 0.
DriverStartsAtZero ==
    [][ /\ RoadmapStarted
              => tasks'["roadmap"].status = "running" /\ tasks'["roadmap"].progress = 0
        /\ DiscoveryStarted
              => tasks'["discovery"].status = "running" /\ tasks'["discovery"].progress = 0
      ]_vars

\* C14, amended: in the step in which a driver starts to wait for its
\* external call, the task has been set to status running, with progress 5
\* (roadmap) or 10 (discovery) and the driver's first message; its other
\* fields are as before.
DriverStartsRunning ==
    [][ /\ RoadmapStarted
              => /\ tasks'["roadmap"].status = "running"
                 /\ tasks'["roadmap"].progress = 5
                 /\ tasks'["roadmap"].message = "Initiating Neural Scan..."
                 /\ tasks'["roadmap"].error = tasks["roadmap"].error
        /\ DiscoveryStarted
              => /\ tasks'["discovery"].status = "running"
                 /\ tasks'["discovery"].progress = 10
                 /\ tasks'["discovery"].message \in {"Searching for q...", "Searching for g..."}
                 /\ tasks'["discovery"].error = tasks["discovery"].error
      ]_vars

\* Both drivers have started and still wait for their external calls, the
\* roadmap driver not yet ticked
DriverStartWitness ==
    /\ \E r \in Generating : runs[r].stepIdx = 0
    /\ Searching # {}
    /\ tasks["roadmap"].status = "running" /\ tasks["roadmap"].progress = 5
    /\ tasks["discovery"].status = "running" /\ tasks["discovery"].progress = 10

\* This step is the rest of the search_jobs case after searchJobsPro has
\* resolved
DiscoveryCompletes == lastOp'.name = "searchResolved"

\* C15: a discovery run whose external call succeeds goes
\* idle -> running -> completed with at least one progress update between
\* the start update and the completion, progress never decreases from one
\* update to the next, stays within 0..100 and ends at 100.
DiscoveryRunWithIntermediate ==
    [][ /\ tasks["discovery"].status = "running"
              => tasks'["discovery"].progress >= tasks["discovery"].progress
        /\ tasks'["discovery"].progress \in 0..100
        /\ DiscoveryCompletes
              => /\ tasks'["discovery"].status = "completed"
                 /\ tasks'["discovery"].progress = 100
                 /\ discoveryWrites' >= 3
      ]_vars

TaskStateIsProcessWide ==
    /\ tasks = [id \in TaskIds |-> InitialTask(id)]
    /\ [][ /\ DOMAIN tasks' = TaskIds
           /\ \A id \in TaskIds : tasks'[id].id = id
           /\ activeTab' # activeTab => tasks' = tasks \/ RoadmapStarted \/ DiscoveryCompletes
           /\ lastOp'.name = "setActiveTab" => tasks' = tasks
           /\ \A r \in Generating : runs[r].stepIdx < Len(steps) => ENABLED RoadmapTick(r)
         ]_vars

\* The progress timer of a generation has just ticked for the second time
\* while the interview tab is shown, the generation started from another tab
TickOnOtherTab ==
    /\ lastOp.name = "interval"
    /\ activeTab = "interview"
    /\ rendered.tab = "interview"
    /\ tasks["roadmap"].status = "running"
    /\ tasks["roadmap"].progress = 30
    /\ DOMAIN tasks = TaskIds

\* The external calls of the driver of task id that have not settled
InFlight(id) == IF id = "roadmap" THEN Generating ELSE Searching

\* C18: every started run terminates: once the external calls of a task's
\* driver have all resolved or rejected the task is completed or in error;
\* no task is left running with nothing in flight that could end the run.
NoTaskLeftRunning ==
    \A id \in TaskIds : tasks[id].status = "running" => InFlight(id) # {}

\* The action tags handleGlobalCommand has a case for
Supported == {"switch_tab", "start_interview", "strategy", "search_jobs", "improve_resume"}

\* C19: interpretCommand never throws or rejects: for every outcome of its
\* remote call it resolves to one result, and whenever that is not a
\* supported action it is {action: 'blocked'} with a non-empty reason.
InterpretAlwaysWellFormed ==
    [][ \A k \in Commands : cmds[k].pc = "interpreting" /\ cmds'[k].pc # "interpreting"
            => /\ lastOp'.name = "handleGlobalCommand"
               /\ \E o \in Outcomes : lastOp'.cmd = interpretCommand(cmds[k].input, o)
               /\ lastOp'.cmd.action \notin Supported
                     => (lastOp'.cmd.action = "blocked" /\ Truthy(lastOp'.cmd.reason))
      ]_vars

\* The commands whose handleGlobalCommand waits for an external call
Awaiting == {k \in Commands : cmds[k].pc \in {"searching", "improving"}}

\* C20: a command result whose action is 'blocked', or is not one of the
\* supported tags, triggers no side effect: the active tab, the discovered
\* jobs, the profile, the roadmap and every task record are unchanged and
\* no external call is started.
BlockedHasNoEffect ==
    [][ (lastOp'.name = "handleGlobalCommand" /\ lastOp'.cmd.action \notin Supported)
            => /\ UNCHANGED <<activeTab, discoveredJobs, profile, roadmap, tasks>>
               /\ Generating' = Generating
               /\ Awaiting' = Awaiting
      ]_vars

\* A result with the unsupported tag 'status' has just been dispatched by a
\* handler that saw the profile, while the roadmap tab is shown and a
\* generation is running
UnsupportedDispatched ==
    /\ lastOp.name = "handleGlobalCommand"
    /\ lastOp.cmd.action = "status"
    /\ profile = "loaded"
    /\ rendered.profile = "loaded"
    /\ activeTab = "roadmap"
    /\ tasks["roadmap"].status = "running"
    /\ Generating # {}

\* ------------------------------------------------- claims on services/gemini

\* The response text is JSON as it stands
WellFormed(text) == text.defined /\ JSONparse(text.toks).kind = "return"

\* The response text is JSON once the fences around it are taken off
Fenced(text) ==
    /\ text.defined
    /\ JSONparse(text.toks).kind = "throw"
    /\ JSONparse(cleanText(text.toks)).kind = "return"

\* safeParseJson ends by returning, whatever the text
ParseReturns == ret.kind \in {"pending", "return"}

\* C21 - safeParseJson never throws: for an undefined, an empty and a
\* malformed text (one that is not JSON, with or without fences around it)
\* it returns the fallback, and for a text that is well-formed JSON it
\* returns the value JSON.parse gives for that text.
ParseOrFallback ==
    (arg.fn = "safeParseJson" /\ ret.kind # "pending") =>
        /\ ret.kind = "return"
        /\ (~WellFormed(arg.text) /\ ~Fenced(arg.text)) => ret.value = arg.fallback
        /\ WellFormed(arg.text) => ret.value = JSONparse(arg.text.toks).value

\* The call has ended
Settled == ret.kind \in {"return", "throw"}

\* The search provider gave no result or failed, or was not asked
ProviderGaveNone ==
    \/ ~arg.serpKey
    \/ arg.fetch.kind \in {"network", "not json", "null"}
    \/ arg.fetch.kind = "data" /\ (~arg.fetch.present \/ arg.fetch.jobs_results = <<>>)

\* The fallback search failed or gave a text that cannot be parsed
FallbackGaveNone ==
    \/ ~arg.apiKey
    \/ arg.generate.kind = "rejected"
    \/ /\ arg.generate.kind = "resolved"
       /\ ~WellFormed(arg.generate.text)
       /\ ~Fenced(arg.generate.text)

\* C22 - Job search degrades to an empty list: searchJobsPro resolves to a
\* list for every query, no exception reaches its caller, and the list is
\* empty when the provider gave no result or failed and the fallback search
\* failed or returned a text that cannot be parsed.
SearchDegradesToEmptyList ==
    (arg.fn = "searchJobsPro" /\ Settled) =>
        /\ ret.kind = "return"
        /\ ret.value.t = "array"
        /\ (ProviderGaveNone /\ FallbackGaveNone) => ret.value = JsonArray(<<>>)

\* C23 - Codec round trip: decodeAudio(encodeAudio(b)) is b, byte for byte,
\* for every byte sequence b examined (every length from 0, every byte
\* value 0..255).
CodecRoundTrip ==
    (arg.fn = "encodeAudio" /\ Settled) =>
        /\ ret.kind = "return"
        /\ ret.value = arg.bytes

\* A byte sequence that needs padding and holds the bytes 255 and 0 has been
\* encoded and decoded
CodecRoundTripWitness ==
    /\ arg.fn = "encodeAudio"
    /\ ret.kind = "return"
    /\ Len(arg.bytes) = 4
    /\ arg.bytes[4] = 255
    /\ arg.bytes[1] = 0

\* The 16-bit value at index k (from 0) of a PCM16 byte buffer: two bytes,
\* low byte first, two's complement
Pcm16At(data, k) ==
    IF data[2 * k + 1] + 256 * data[2 * k + 2] >= 32768
    THEN data[2 * k + 1] + 256 * data[2 * k + 2] - 65536
    ELSE data[2 * k + 1] + 256 * data[2 * k + 2]

\* The buffer b holds n frames, and sample i of channel c is the 16-bit value
\* at index i * channels + c of data over 32768, which times 32768 is the
\* 16-bit sample the data was made of
HoldsFrames(b, n, a) ==
    /\ b.length = n
    /\ b.numberOfChannels = a.numChannels
    /\ \A c \in 0..(a.numChannels - 1) : \A i \in 0..(n - 1) :
          /\ b.channelData[c][i] = Frac(Pcm16At(Data(a), i * a.numChannels + c), 32768)
          /\ Times(b.channelData[c][i], 32768) = Frac(a.int16[i * a.numChannels + c + 1], 1)

\* C24 - PCM16 round trip: for every PCM16 buffer whose byte length is a
\* multiple of 2 x channels, decodeAudioData gives length / (2 x channels)
\* frames per channel, sample i of channel c is the 16-bit value at index
\* i * channels + c over 32768, and times 32768 it is the original sample.
PCM16RoundTrip ==
    (/\ arg.fn = "decodeAudioData"
     /\ Settled
     /\ Len(Data(arg)) % (2 * arg.numChannels) = 0)
    => /\ ret.kind = "return"
       /\ HoldsFrames(ret.value, Len(Data(arg)) \div (2 * arg.numChannels), arg)

\* The round trip of C24 for the buffers that hold at least one frame
PCM16RoundTripOfFrames ==
    (/\ arg.fn = "decodeAudioData"
     /\ Settled
     /\ Len(Data(arg)) > 0
     /\ Len(Data(arg)) % (2 * arg.numChannels) = 0)
    => /\ ret.kind = "return"
       /\ HoldsFrames(ret.value, Len(Data(arg)) \div (2 * arg.numChannels), arg)

\* C26 - Malformed audio length raises no error: for a buffer whose byte
\* length is not a multiple of 2 x channels decodeAudioData returns a buffer
\* of the floor(length / (2 x channels)) complete frames, the partial frame
\* after them dropped.
PartialFrameDropped ==
    (/\ arg.fn = "decodeAudioData"
     /\ Settled
     /\ Len(Data(arg)) % (2 * arg.numChannels) # 0)
    => /\ ret.kind = "return"
       /\ HoldsFrames(ret.value, Len(Data(arg)) \div (2 * arg.numChannels), arg)

\* The partial frame of a two-channel buffer of a whole number of 16-bit
\* samples is dropped
PartialFrameOfSamplesDropped ==
    (/\ arg.fn = "decodeAudioData"
     /\ Settled
     /\ Len(Data(arg)) % 2 = 0
     /\ Len(Data(arg)) > 2 * arg.numChannels
     /\ Len(Data(arg)) % (2 * arg.numChannels) # 0)
    => /\ ret.kind = "return"
       /\ HoldsFrames(ret.value, Len(Data(arg)) \div (2 * arg.numChannels), arg)

\* t is the integer part of x, towards zero
IsTruncOf(t, x) ==
    IF x.num >= 0
    THEN t >= 0 /\ t * x.den <= x.num /\ x.num < (t + 1) * x.den
    ELSE t <= 0 /\ (t - 1) * x.den < x.num /\ x.num <= t * x.den

\* C25 - Float-to-PCM16 conversion: each sample s of the window is stored as
\* the 16-bit two's-complement value of trunc(s * 32768) modulo 2^16: the
\* stored value is within -32768..32767 and differs from trunc(s * 32768) by
\* a multiple of 2^16, so a product within range is stored as it is, a
\* product out of range wraps around (+1.0 is stored as -32768) and no
\* error is raised.
ScaleWrapsNoClamp ==
    (arg.fn = "onaudioprocess" /\ Settled) =>
        /\ ret.kind = "return"
        /\ Len(ret.value.int16) = Len(arg.inputData)
        /\ \A i \in 1..Len(arg.inputData) :
              LET s == arg.inputData[i]
                  v == ret.value.int16[i]
              IN  /\ v \in -32768..32767
                  /\ \E w \in -2..2 : IsTruncOf(v + w * 65536, Times(s, 32768))
                  /\ s = Frac(65536, 65536) => v = -32768

\* A window with the full-scale sample +1.0 and a sample just below it has
\* been converted: the first wrapped to -32768, the second is 32767
ScaleWrapsWitness ==
    /\ arg.fn = "onaudioprocess"
    /\ ret.kind = "return"
    /\ arg.inputData = <<Frac(65536, 65536), Frac(65535, 65536)>>
    /\ ret.value.int16 = <<-32768, 32767>>

\* --------------------------------------- more claims on InterviewSimulator

\* C27 - Active-set membership: in every reachable state a source is in the
\* active set exactly when it has been scheduled, its ended event has not
\* fired and no interruption has stopped it; a source that has played out
\* and is still in the set has its ended event due, which removes it.
ActiveSetMembership ==
    /\ sources \subseteq DOMAIN srcs
    /\ \A k \in DOMAIN srcs :
          /\ k \in sources <=> (srcs[k].state = "started" /\ ~srcs[k].endFired)
          /\ (k \in sources /\ Phase(srcs[k]) = "finished") => ENABLED SourceEnded(k)

\* One source has played out and its ended event has removed it, while a
\* source scheduled after it is in the active set
ActiveSetWitness ==
    \E j, k \in DOMAIN srcs :
        /\ j < k
        /\ srcs[j].state = "started" /\ srcs[j].endFired /\ j \notin sources
        /\ k \in sources

\* The connections that are opening or open
Streaming == {i \in Attempts : conn[i] \in {"opening", "open"}}

\* The connection opened last among those not yet closed
LastOpened(S) == CHOOSE i \in S : \A j \in S : j <= i

\* C28 - At most one streaming session at a time: under every sequence of
\* start and stop clicks the buttons allow, no step leads to more than one
\* opening-or-open connection or to more than one microphone capture, and
\* stopSession closes the connection opened last and not yet closed.
AtMostOneSession ==
    [][/\ Cardinality(Streaming') <= 1
       /\ Cardinality(capture') <= 1
       /\ (StopSession /\ Streaming # {}) =>
              conn'[LastOpened(Streaming)] \notin {"opening", "open"}]_vars

\* C29 - isActive and status agree in every reachable state: status Idle or
\* Connecting implies isActive is false, status Live implies isActive is
\* true, and isActive true implies status Live or Error.
ActiveAgreesWithStatus ==
    /\ status \in {"Idle", "Connecting"} => ~isActive
    /\ status = "Live" => isActive
    /\ isActive => status \in {"Live", "Error"}

\* A live session has met a remote error: isActive is still true with
\* status Error, after a second start had been made while connecting
ActiveAgreesWitness ==
    /\ isActive
    /\ status = "Error"
    /\ \E i \in Attempts : conn[i] = "errored" /\ i \in capture
    /\ \A i \in Attempts : pc[i] # "none"

\* ------------------------------------------------------ more claims on App

\* C30 - A task record has an error field exactly when its status is error:
\* in every reachable state a task that is idle, running or completed has
\* no error field (a re-run after a failure does not keep the old one), and
\* a task whose status is error has one.
ErrorFieldIffError ==
    \A id \in TaskIds : (tasks[id].status = "error") <=> (tasks[id].error # Absent)

====
